---- MODULE Spec2Model ----
(***************************************************************************)
(* A model of the rss-tui dashboard: the Telegram monitor with its dedup   *)
(* cursor table (telegram_funcs.rs), the feed fetch cycle, the aggregator  *)
(* loop of main() and the layout arithmetic of render_rss_block (main.rs). *)
(*                                                                         *)
(* Strings are sequences of code points (naturals); an Option is a         *)
(* sequence of length 0 (None) or 1 (Some).                                *)
(***************************************************************************)
EXTENDS Integers, Sequences, FiniteSets, TLC

VARIABLES
    target_chat_ids,    \* main.rs: target_ids, the configured conversations
    last_seen,          \* TelegramMonitor.last_seen: chat id -> cursor
    dialog,             \* chat id and last message id of the dialog handled last (Option)
    monitor_task,       \* the task running monitor(): "running", or "ended" by an Err
    pollers,            \* where each of several tasks running monitor() stands
    tg_q,               \* the (sender, text) channel tg_tx -> app.tg_rx
    forwarded,          \* history: per chat id, the message ids sent to the sink
    telegram_messages,  \* App.telegram_messages (BTreeMap sender -> text)
    drained,            \* history: every delivery the aggregator has received
    tasks,              \* the fetch tasks fetch_rss has spawned and that run still
    cycles,             \* how many fetch cycles fetch_rss has started
    rss_q,              \* the batch channel tx -> app.rx
    rss_feeds,          \* App.rss_feeds, one feed per category
    offset,             \* App.offset (usize)
    stored,             \* history: cycle and per-URL outcomes of the batch in rss_feeds
    last_ok,            \* history: per category, the items of its last successful fetch
    pc,                 \* where main() is in its loop
    keys,               \* the terminal's pending key events
    timer_due,          \* last_tick.elapsed() >= tick_rate
    frame,              \* the frame terminal.draw rendered last (Option)
    overflow_checks     \* the build profile: debug (TRUE) or release (FALSE)

chatVars == <<target_chat_ids, last_seen, dialog, monitor_task, pollers, tg_q,
              forwarded, telegram_messages, drained>>
feedVars == <<tasks, cycles, rss_q, rss_feeds, stored, last_ok>>
loopVars == <<offset, pc, keys, timer_due, frame, overflow_checks>>

vars == <<chatVars, feedVars, loopVars>>

(***************************************************************************)
(* Bounds of the model.                                                    *)
(***************************************************************************)
MaxMsgId == 2
MaxChatId == 3

(***************************************************************************)
(* Characters and strings.                                                 *)
(***************************************************************************)
LF == 10
SPACE == 32

\* str.replace(from, to) for single characters
Replace(s, from, to) == [i \in 1..Len(s) |-> IF s[i] = from THEN to ELSE s[i]]

\* "alice", "bob", "Unknown"
alice == <<97, 108, 105, 99, 101>>
bob == <<98, 111, 98>>
Unknown == <<85, 110, 107, 110, 111, 119, 110>>

None == <<>>
Some(x) == <<x>>

(***************************************************************************)
(* The inputs of the chat monitor: what iter_dialogs() can yield.          *)
(***************************************************************************)
ChatIds == 1..MaxChatId
MsgIds == 1..MaxMsgId
PeerNames == {None, Some(alice), Some(bob)}
RawTexts == {<<104, 105>>, <<121, LF, 111>>}
Messages == [id : MsgIds, text : RawTexts]
Dialogs == [chat_id : ChatIds, name : PeerNames,
            last_message : {None} \cup {Some(m) : m \in Messages}]


\* The dialogs of the two named peers and of a third, unnamed one
NamedDialogs ==
    {d \in Dialogs : d.name = (IF d.chat_id = 1 THEN Some(alice)
                               ELSE IF d.chat_id = 2 THEN Some(bob) ELSE None)}

(***************************************************************************)
(* TelegramMonitor::monitor, the body of the loop over the dialogs.        *)
(***************************************************************************)
\* lines 105-107 with `<` for `<=`, and with no dedup check at all
ShouldSkip_strict(seen, chat_id, msg_id) ==
    chat_id \in DOMAIN seen /\ msg_id < seen[chat_id]

ShouldSkip_never(seen, chat_id, msg_id) == FALSE

\* lines 105-107: the message is not newer than the stored cursor
ShouldSkip(seen, chat_id, msg_id) ==
    chat_id \in DOMAIN seen /\ msg_id <= seen[chat_id]

\* HashMap::insert
MapInsert(m, k, v) == [x \in DOMAIN m \cup {k} |-> IF x = k THEN v ELSE m[x]]

\* lines 111-113: peer.name() or "Unknown"
SenderName(d) == IF d.name = None THEN Unknown ELSE d.name[1]

\* line 115: msg.text() with its newlines replaced by spaces
CleanText(m) == Replace(m.text, LF, SPACE)

\* One iteration of `while let Some(dialog) = dialogs.next().await?`
MonitorDialog(d) ==
    /\ pc \notin {"exited", "panicked"}
    /\ monitor_task = "running"
    /\ dialog' = Some([chat_id |-> d.chat_id,
                       msg_id |-> IF d.last_message = None THEN None
                                  ELSE Some(d.last_message[1].id)])
    /\ IF d.chat_id \notin target_chat_ids \/ d.last_message = None
       THEN UNCHANGED <<last_seen, tg_q, forwarded>>
       ELSE LET msg == d.last_message[1] IN
            IF ShouldSkip(last_seen, d.chat_id, msg.id)
            THEN UNCHANGED <<last_seen, tg_q, forwarded>>
            ELSE /\ last_seen' = MapInsert(last_seen, d.chat_id, msg.id)
                 /\ tg_q' = Append(tg_q, <<SenderName(d), CleanText(msg)>>)
                 /\ forwarded' = [forwarded EXCEPT ![d.chat_id] = Append(@, msg.id)]
    /\ UNCHANGED <<target_chat_ids, monitor_task, pollers, telegram_messages,
                   drained, feedVars, loopVars>>

\* line 91: dialogs.next().await? fails, monitor() returns the Err, and the
\* task that runs it (main.rs lines 114-116) drops the result and ends
MonitorError ==
    /\ pc \notin {"exited", "panicked"}
    /\ monitor_task = "running"
    /\ monitor_task' = "ended"
    /\ UNCHANGED <<target_chat_ids, last_seen, dialog, pollers, tg_q, forwarded,
                   telegram_messages, drained, feedVars, loopVars>>

(***************************************************************************)
(* monitor() run by several tasks over one TelegramMonitor, and so over    *)
(* one last_seen table.  A task stands at the listing (line 91, "next"),   *)
(* before the locked block with a dialog in hand (line 104, "lock"), or    *)
(* before the send (line 118, "send").                                     *)
(***************************************************************************)
NumPollers == 2
Pollers == 1..NumPollers

AtNext == [at |-> "next", d |-> None]

\* lines 91-100: the listing yields d; a dialog that is no target or has no
\* message is passed over
PollerNext(p, d) ==
    /\ pollers[p].at = "next"
    /\ pollers' = IF d.chat_id \notin target_chat_ids \/ d.last_message = None
                  THEN pollers
                  ELSE [pollers EXCEPT ![p] = [at |-> "lock", d |-> Some(d)]]
    /\ UNCHANGED <<target_chat_ids, last_seen, dialog, monitor_task, tg_q, forwarded,
                   telegram_messages, drained, feedVars, loopVars>>

\* lines 103-109 with the guard dropped between the check and the insert
PollerDedup_split(p) ==
    /\ pollers[p].at \in {"lock", "insert"}
    /\ LET d == pollers[p].d[1] IN
       IF pollers[p].at = "insert"
       THEN /\ last_seen' = MapInsert(last_seen, d.chat_id, d.last_message[1].id)
            /\ pollers' = [pollers EXCEPT ![p].at = "send"]
       ELSE /\ pollers' = IF ShouldSkip(last_seen, d.chat_id, d.last_message[1].id)
                          THEN [pollers EXCEPT ![p] = AtNext]
                          ELSE [pollers EXCEPT ![p].at = "insert"]
            /\ UNCHANGED last_seen
    /\ UNCHANGED <<target_chat_ids, dialog, monitor_task, tg_q, forwarded,
                   telegram_messages, drained, feedVars, loopVars>>

\* lines 103-109: the check and the insert, one step under the MutexGuard
PollerDedup(p) ==
    /\ pollers[p].at = "lock"
    /\ LET d == pollers[p].d[1] IN
       IF ShouldSkip(last_seen, d.chat_id, d.last_message[1].id)
       THEN /\ pollers' = [pollers EXCEPT ![p] = AtNext]
            /\ UNCHANGED last_seen
       ELSE /\ last_seen' = MapInsert(last_seen, d.chat_id, d.last_message[1].id)
            /\ pollers' = [pollers EXCEPT ![p].at = "send"]
    /\ UNCHANGED <<target_chat_ids, dialog, monitor_task, tg_q, forwarded,
                   telegram_messages, drained, feedVars, loopVars>>

\* lines 111-118, after the guard is dropped
PollerSend(p) ==
    /\ pollers[p].at = "send"
    /\ LET d == pollers[p].d[1] IN
       /\ tg_q' = Append(tg_q, <<SenderName(d), CleanText(d.last_message[1])>>)
       /\ forwarded' = [forwarded EXCEPT ![d.chat_id] = Append(@, d.last_message[1].id)]
    /\ pollers' = [pollers EXCEPT ![p] = AtNext]
    /\ UNCHANGED <<target_chat_ids, last_seen, dialog, monitor_task,
                   telegram_messages, drained, feedVars, loopVars>>


(***************************************************************************)
(* App::fetch_rss and the task it spawns, main.rs lines 63-87.  The task   *)
(* keeps its batch to itself until it sends it, so its run is one step.    *)
(* A fetch of URL u in cycle c has one of three outcomes: "err" (get_feed  *)
(* fails), "empty" (a document with no items) or "ok" (the items of        *)
(* Content(u, c)).                                                         *)
(***************************************************************************)
NumUrls == 6
Urls == 1..NumUrls
FetchOutcomes == {"err", "empty", "ok"}

Item(title, date, desc) == [title |-> title, date |-> date, desc |-> desc]

\* The items URL u serves in cycle c: one item titled by u and c
Content(u, c) == <<Item(<<64 + u, 48 + c>>, <<49, 53, 32, 74, 97, 110>>,
                        <<100, LF, 101>>)>>

\* rss_funcs::get_feed(url).await as a Result: Some(feed) is Ok, None is Err
GetFeed(u, c, o) ==
    IF o[u] = "err" THEN None
    ELSE IF o[u] = "empty" THEN Some(<<>>) ELSE Some(Content(u, c))

\* lines 79-83 without the else branch: a failed URL pushes nothing
PushResult_skip(categorized_feeds, r) ==
    IF r # None THEN Append(categorized_feeds, r[1]) ELSE categorized_feeds

\* lines 79-83: the body of `for url in urls`
PushResult(categorized_feeds, r) ==
    IF r # None THEN Append(categorized_feeds, r[1])
    ELSE Append(categorized_feeds, <<>>)

RECURSIVE FetchLoop(_, _, _, _)
FetchLoop(u, c, o, categorized_feeds) ==
    IF u > NumUrls THEN categorized_feeds
    ELSE FetchLoop(u + 1, c, o, PushResult(categorized_feeds, GetFeed(u, c, o)))

\* fetch_rss: the spawn
FetchRss ==
    /\ cycles' = cycles + 1
    /\ tasks' = tasks \cup {cycles + 1}

\* The spawned task runs to its tx.send.  A queue entry carries, beside the
\* batch, the cycle and the outcomes it came from (history, read by no action).
FetchComplete(c, o) ==
    /\ pc \notin {"exited", "panicked"}
    /\ c \in tasks
    /\ tasks' = tasks \ {c}
    /\ rss_q' = Append(rss_q, [feeds |-> FetchLoop(1, c, o, <<>>),
                               cycle |-> c, outcome |-> o])
    /\ UNCHANGED <<cycles, rss_feeds, stored, last_ok, chatVars, loopVars>>

(***************************************************************************)
(* The aggregator loop of main(), lines 125-221.                           *)
(***************************************************************************)
UsizeBits == 2
UsizeMax == 2 ^ UsizeBits - 1

\* usize::wrapping_add
WrappingAdd(a, b) == (a + b) % (UsizeMax + 1)
\* usize::saturating_sub
SaturatingSub(a, b) == IF a >= b THEN a - b ELSE 0

\* lines 126-129 merging: a category the new batch leaves empty keeps its items
RECURSIVE RecvFeeds_merge(_, _)
RecvFeeds_merge(app, q) ==
    IF q = <<>> THEN app
    ELSE RecvFeeds_merge(
             [rss_feeds |-> [u \in DOMAIN Head(q).feeds |->
                               IF Head(q).feeds[u] = <<>> /\ u \in DOMAIN app.rss_feeds
                               THEN app.rss_feeds[u] ELSE Head(q).feeds[u]],
              offset |-> 0], Tail(q))

\* lines 126-129 stopping after the first batch received
RecvFeeds_first(app, q) ==
    IF q = <<>> THEN app ELSE [rss_feeds |-> Head(q).feeds, offset |-> 0]

\* lines 126-129: while let Ok(new_feeds) = app.rx.try_recv()
RECURSIVE RecvFeeds(_, _)
RecvFeeds(app, q) ==
    IF q = <<>> THEN app
    ELSE RecvFeeds([rss_feeds |-> Head(q).feeds, offset |-> 0], Tail(q))

\* history: the items each category fetched last without an error
RECURSIVE NoteFetched(_, _)
NoteFetched(ok, q) ==
    IF q = <<>> THEN ok
    ELSE NoteFetched([u \in Urls |->
                        IF Head(q).outcome[u] = "ok" THEN Content(u, Head(q).cycle)
                        ELSE IF Head(q).outcome[u] = "empty" THEN <<>>
                        ELSE ok[u]], Tail(q))

DrainFeeds ==
    LET app == RecvFeeds([rss_feeds |-> rss_feeds, offset |-> offset], rss_q) IN
    /\ rss_feeds' = app.rss_feeds
    /\ offset' = app.offset
    /\ rss_q' = <<>>
    /\ stored' = IF rss_q = <<>> THEN stored
                 ELSE Some([cycle |-> rss_q[Len(rss_q)].cycle,
                            outcome |-> rss_q[Len(rss_q)].outcome])
    /\ last_ok' = NoteFetched(last_ok, rss_q)

\* lines 130-132: while let Ok((sender, msg)) = app.tg_rx.try_recv()
\* line 131 as entry().or_insert(): the first message of a sender stays
TableInsert_keep(table, sender, msg) ==
    [x \in DOMAIN table \cup {sender} |-> IF x \in DOMAIN table THEN table[x] ELSE msg]

\* line 131: BTreeMap::insert
TableInsert(table, sender, msg) ==
    [x \in DOMAIN table \cup {sender} |-> IF x = sender THEN msg ELSE table[x]]

RECURSIVE InsertAll(_, _)
InsertAll(table, q) ==
    IF q = <<>> THEN table
    ELSE InsertAll(TableInsert(table, Head(q)[1], Head(q)[2]), Tail(q))

DrainTelegram ==
    /\ telegram_messages' = InsertAll(telegram_messages, tg_q)
    /\ drained' = drained \o tg_q
    /\ tg_q' = <<>>


(***************************************************************************)
(* render_rss_block, main.rs lines 236-308, and the Telegram column.       *)
(* A rendered block is [panic, items]: items is the list of ListItems,     *)
(* each a sequence of lines, each line a string.                           *)
(***************************************************************************)
DIAMOND == 9670
BOX_DASH == 9472
DOT == 46
DATE_CHARS == 10
DESC_CHUNKS == 2
COUNT == 2
TG_ROWS == 20

Min(a, b) == IF a <= b THEN a ELSE b
\* s.chars().take(n)
Take(s, n) == SubSeq(s, 1, Min(n, Len(s)))
\* c.repeat(n)
Repeat(c, n) == [i \in 1..n |-> c]
\* the UTF-8 length of one character
Utf8Len(c) == IF c < 128 THEN 1 ELSE IF c < 2048 THEN 2 ELSE IF c < 65536 THEN 3 ELSE 4
\* String::len(), in bytes
RECURSIVE ByteLen(_)
ByteLen(s) == IF s = <<>> THEN 0 ELSE Utf8Len(Head(s)) + ByteLen(Tail(s))

\* "   Fetching data..."
FetchingData == <<32, 32, 32, 70, 101, 116, 99, 104, 105, 110, 103, 32,
                  100, 97, 116, 97, 46, 46, 46>>
LabelPrefix == <<DIAMOND, SPACE>>
Ellipsis == <<DOT, DOT, DOT>>

\* lines 169-177: the tag of each middle-column category, None on the left
TagInfo(feed_idx) ==
    IF feed_idx = 3 THEN Some(<<83, 116, 111, 99, 107, 115>>)
    ELSE IF feed_idx = 4 THEN Some(<<87, 111, 114, 108, 100>>)
    ELSE IF feed_idx = 5 THEN Some(<<83, 105, 110, 103, 97, 112, 111, 114, 101>>)
    ELSE None

\* lines 259-262: format!(" [{}]", t)
TagStr(tag_info) ==
    IF tag_info = None THEN <<>> ELSE <<SPACE, 91>> \o tag_info[1] \o <<93>>

\* line 255
DateStr(date) == Take(date, DATE_CHARS)

\* line 268
MaxTitleLen(inner_width, date_str, tag_str) ==
    SaturatingSub(inner_width,
                  ByteLen(date_str) + Len(tag_str) + Len(LabelPrefix) + 2)

\* lines 269-273
TruncatedTitle(title_text, max_title_len) ==
    IF Len(title_text) > max_title_len
    THEN Take(title_text, SaturatingSub(max_title_len, 3)) \o Ellipsis
    ELSE title_text

\* lines 255-285: the header line of one item, its spans concatenated
HeaderLine(item, inner_width, tag_info) ==
    LET date_str == DateStr(item.date)
        tag_str == TagStr(tag_info)
        truncated_title ==
            TruncatedTitle(item.title, MaxTitleLen(inner_width, date_str, tag_str))
        current_content_len ==
            Len(LabelPrefix) + Len(truncated_title) + ByteLen(date_str)
            + Len(tag_str) + 1
        padding == Repeat(SPACE, SaturatingSub(inner_width, current_content_len))
    IN  LabelPrefix \o truncated_title \o padding \o date_str \o tag_str

\* slice::chunks(n).take(k) for n > 0; the iterator is lazy
RECURSIVE ChunksTake(_, _, _)
ChunksTake(s, n, k) ==
    IF s = <<>> \/ k = 0 THEN <<>>
    ELSE <<Take(s, n)>> \o ChunksTake(SubSeq(s, Min(n, Len(s)) + 1, Len(s)), n, k - 1)

\* lines 287-293: the description lines; chunks(0) panics
DescLines(desc, inner_width) ==
    ChunksTake(Replace(desc, LF, SPACE), inner_width, DESC_CHUNKS)

\* line 252: (app.offset + i) % feed.len().  The sum overflows usize when it
\* exceeds UsizeMax: a panic with overflow checks on, a wrapped sum without.
ItemIdx(off, i, len, checks) ==
    IF off + i > UsizeMax
    THEN IF checks THEN None ELSE Some(((off + i) % (UsizeMax + 1)) % len)
    ELSE Some((off + i) % len)

\* lines 251-302: the loop over the visible slots, from slot i on
RECURSIVE RenderSlots(_, _, _, _, _, _, _, _)
RenderSlots(i, count, feed, off, inner_width, tag_info, checks, items) ==
    IF i >= count THEN [panic |-> FALSE, items |-> items]
    ELSE LET item_idx == ItemIdx(off, i, Len(feed), checks) IN
         IF item_idx = None \/ inner_width = 0
         THEN [panic |-> TRUE, items |-> items]
         ELSE LET item == feed[item_idx[1] + 1]
                  item_lines == <<HeaderLine(item, inner_width, tag_info)>>
                                \o DescLines(item.desc, inner_width)
                  separator == IF i < count - 1
                               THEN <<<<Repeat(BOX_DASH, inner_width)>>>>
                               ELSE <<>>
              IN RenderSlots(i + 1, count, feed, off, inner_width, tag_info,
                             checks, items \o <<item_lines>> \o separator)

\* line 247
InnerWidth(width) == SaturatingSub(width, 2)

render_rss_block(width, feeds, off, feed_idx, count, tag_info, checks) ==
    IF feed_idx + 1 \notin DOMAIN feeds THEN [panic |-> FALSE, items |-> <<>>]
    ELSE IF feeds[feed_idx + 1] = <<>>
    THEN [panic |-> FALSE, items |-> <<<<FetchingData>>>>]
    ELSE RenderSlots(0, count, feeds[feed_idx + 1], off, InnerWidth(width),
                     tag_info, checks, <<>>)

\* Strings compare as their code points do
RECURSIVE StrLess(_, _)
StrLess(a, b) ==
    IF b = <<>> THEN FALSE
    ELSE IF a = <<>> THEN TRUE
    ELSE IF Head(a) # Head(b) THEN Head(a) < Head(b)
    ELSE StrLess(Tail(a), Tail(b))

\* BTreeMap::iter().rev(): the entries from the greatest key down
RECURSIVE IterRev(_, _)
IterRev(table, ks) ==
    IF ks = {} THEN <<>>
    ELSE LET k == CHOOSE x \in ks : \A y \in ks \ {x} : StrLess(y, x)
         IN <<<<k, table[k]>>>> \o IterRev(table, ks \ {k})

\* BTreeMap::iter(): the entries from the least key up
RECURSIVE IterFwd(_, _)
IterFwd(table, ks) ==
    IF ks = {} THEN <<>>
    ELSE LET k == CHOOSE x \in ks : \A y \in ks \ {x} : StrLess(x, y)
         IN <<<<k, table[k]>>>> \o IterFwd(table, ks \ {k})

\* line 181 without .rev()
TgItems_fwd(table) == Take(IterFwd(table, DOMAIN table), TG_ROWS)

\* line 181: telegram_messages.iter().rev().take(20)
TgItems(table) == Take(IterRev(table, DOMAIN table), TG_ROWS)

\* lines 134-203: the frame; a panic in any block unwinds out of draw
RenderFrame(width) ==
    LET blocks == [k \in 0..(NumUrls - 1) |->
                     render_rss_block(width, rss_feeds, offset, k, COUNT,
                                      TagInfo(k), overflow_checks)]
    IN [width |-> width,
        panic |-> \E k \in DOMAIN blocks : blocks[k].panic,
        blocks |-> blocks,
        telegram |-> TgItems(telegram_messages)]


(***************************************************************************)
(* The steps of the loop, in the order of the code: drain the feed         *)
(* channel, drain the chat channel, draw, poll the keyboard, check the     *)
(* timer.                                                                  *)
(***************************************************************************)
MaxKeys == 1
MaxCycles == 2

KeyEvents == {[code |-> "q", kind |-> "Press"], [code |-> "r", kind |-> "Press"],
              [code |-> "x", kind |-> "Press"], [code |-> "q", kind |-> "Release"]}

LoopDrainFeeds ==
    /\ pc = "drain_feeds"
    /\ DrainFeeds
    /\ pc' = "drain_tg"
    /\ UNCHANGED <<tasks, cycles, chatVars, keys, timer_due, frame, overflow_checks>>

LoopDrainTelegram ==
    /\ pc = "drain_tg"
    /\ DrainTelegram
    /\ pc' = "draw"
    /\ UNCHANGED <<target_chat_ids, last_seen, dialog, monitor_task, pollers,
                   forwarded, feedVars, offset, keys, timer_due, frame,
                   overflow_checks>>

\* terminal.draw on a terminal whose feed blocks are `width` columns wide
Draw(width) ==
    /\ pc = "draw"
    /\ frame' = Some(RenderFrame(width))
    /\ pc' = IF RenderFrame(width).panic THEN "panicked" ELSE "poll"
    /\ UNCHANGED <<chatVars, feedVars, offset, keys, timer_due, overflow_checks>>

\* lines 205-215 with a quit that waits for the fetch tasks to finish
PollEvent_wait ==
    /\ pc = "poll"
    /\ IF keys = <<>>
       THEN /\ pc' = "tick"
            /\ UNCHANGED <<keys, tasks, cycles>>
       ELSE /\ keys' = Tail(keys)
            /\ IF Head(keys).kind = "Press" /\ Head(keys).code = "q"
               THEN /\ pc' = IF tasks = {} THEN "cleanup" ELSE "tick"
                    /\ UNCHANGED <<tasks, cycles>>
               ELSE IF Head(keys).kind = "Press" /\ Head(keys).code = "r"
               THEN pc' = "tick" /\ FetchRss
               ELSE pc' = "tick" /\ UNCHANGED <<tasks, cycles>>
    /\ UNCHANGED <<chatVars, rss_q, rss_feeds, stored, last_ok, offset,
                   timer_due, frame, overflow_checks>>

\* lines 205-215: event::poll(100 ms), then at most one event::read
PollEvent ==
    /\ pc = "poll"
    /\ IF keys = <<>>
       THEN /\ pc' = "tick"
            /\ UNCHANGED <<keys, tasks, cycles>>
       ELSE /\ keys' = Tail(keys)
            /\ IF Head(keys).kind = "Press" /\ Head(keys).code = "q"
               THEN pc' = "cleanup" /\ UNCHANGED <<tasks, cycles>>
               ELSE IF Head(keys).kind = "Press" /\ Head(keys).code = "r"
               THEN pc' = "tick" /\ FetchRss
               ELSE pc' = "tick" /\ UNCHANGED <<tasks, cycles>>
    /\ UNCHANGED <<chatVars, rss_q, rss_feeds, stored, last_ok, offset,
                   timer_due, frame, overflow_checks>>

\* lines 59-61 with saturating_add for wrapping_add
on_tick_saturating == offset' = IF offset = UsizeMax THEN UsizeMax ELSE offset + 1

\* lines 59-61
on_tick == offset' = WrappingAdd(offset, 1)

\* lines 217-220 followed by the draw of `SysWidth` columns
TimerCheck_render ==
    /\ pc = "tick"
    /\ IF timer_due
       THEN on_tick /\ timer_due' = FALSE
       ELSE UNCHANGED <<offset, timer_due>>
    /\ pc' = "drain_feeds"
    /\ UNCHANGED <<chatVars, feedVars, keys, overflow_checks>>
    /\ frame' = Some([width |-> 24,
                      panic |-> FALSE,
                      blocks |-> [k \in 0..(NumUrls - 1) |->
                                    render_rss_block(24, rss_feeds, offset', k, COUNT,
                                                     TagInfo(k), FALSE)],
                      telegram |-> TgItems(telegram_messages)])

\* lines 217-220
TimerCheck ==
    /\ pc = "tick"
    /\ IF timer_due
       THEN on_tick /\ timer_due' = FALSE
       ELSE UNCHANGED <<offset, timer_due>>
    /\ pc' = "drain_feeds"
    /\ UNCHANGED <<chatVars, feedVars, keys, frame, overflow_checks>>

\* lines 223-225: main returns and the runtime drops every task
Exit ==
    /\ pc = "cleanup"
    /\ pc' = "exited"
    /\ UNCHANGED <<chatVars, feedVars, offset, keys, timer_due, frame,
                   overflow_checks>>

\* The environment: tick_rate elapses; the user presses a key.  The loop reads
\* the clock and the keyboard only at its poll and its timer check, so both
\* happen, as far as the program can tell, while it waits in event::poll.  A
\* refresh key is pressed only while fewer than MaxCycles cycles are started or
\* asked for.
TimePasses ==
    /\ pc = "poll"
    /\ ~timer_due
    /\ timer_due' = TRUE
    /\ UNCHANGED <<chatVars, feedVars, offset, pc, keys, frame, overflow_checks>>

Refreshes(ks) == Cardinality({i \in DOMAIN ks : ks[i].code = "r"})

KeyPress(k) ==
    /\ pc = "poll"
    /\ Len(keys) < MaxKeys
    /\ k.code = "r" => cycles + Refreshes(keys) < MaxCycles
    /\ keys' = Append(keys, k)
    /\ UNCHANGED <<chatVars, feedVars, offset, pc, timer_due, frame, overflow_checks>>

(***************************************************************************)
(* The state after start-up: main.rs lines 102-123.                        *)
(***************************************************************************)
EmptyMap == [x \in {} |-> 0]

InitChat ==
    /\ last_seen = EmptyMap
    /\ dialog = None
    /\ monitor_task = "running"
    /\ pollers = [p \in Pollers |-> AtNext]
    /\ tg_q = <<>>
    /\ forwarded = [c \in ChatIds |-> <<>>]
    /\ telegram_messages = EmptyMap
    /\ drained = <<>>

\* App::new, then the first fetch_rss of line 111
InitFeeds ==
    /\ tasks = {1}
    /\ cycles = 1
    /\ rss_q = <<>>
    /\ rss_feeds = [u \in Urls |-> <<>>]
    /\ stored = None
    /\ last_ok = [u \in Urls |-> <<>>]

InitLoop ==
    /\ offset = 0
    /\ pc = "drain_feeds"
    /\ keys = <<>>
    /\ timer_due = FALSE
    /\ frame = None
    /\ overflow_checks \in BOOLEAN

(***************************************************************************)
(* The whole program on a small environment: one target conversation with *)
(* one message, fetch cycles that succeed or lose their first URL.         *)
(***************************************************************************)
SysWidth == 24

SysDialogs ==
    {[chat_id |-> 1, name |-> Some(alice),
      last_message |-> Some([id |-> 1, text |-> <<104, LF, 105>>])]}

SysOutcomes == {[u \in Urls |-> "ok"], [u \in Urls |-> IF u = 1 THEN "err" ELSE "ok"]}

Init == InitChat /\ InitFeeds /\ InitLoop /\ target_chat_ids = {1, 2}

Next ==
    \/ \E d \in SysDialogs : MonitorDialog(d)
    \/ \E c \in 1..MaxCycles, o \in SysOutcomes : FetchComplete(c, o)
    \/ LoopDrainFeeds
    \/ LoopDrainTelegram
    \/ Draw(SysWidth)
    \/ PollEvent
    \/ TimerCheck
    \/ Exit
    \/ TimePasses
    \/ \E k \in KeyEvents : KeyPress(k)

Spec == Init /\ [][Next]_vars

\* main() runs on its own thread and none of its steps waits: try_recv
\* returns at once and event::poll after 100 ms, so a step of the loop that
\* can be taken is taken
LoopFairness ==
    /\ WF_vars(LoopDrainFeeds) /\ WF_vars(LoopDrainTelegram)
    /\ WF_vars(Draw(SysWidth)) /\ WF_vars(PollEvent)
    /\ WF_vars(TimerCheck) /\ WF_vars(Exit)


(***************************************************************************)
(* The parts of the program on their own, each on a richer environment.    *)
(* A step of the loop is taken here whenever it could be the loop's turn.  *)
(***************************************************************************)
ChatDrain == DrainTelegram /\ UNCHANGED <<target_chat_ids, last_seen, dialog,
                                          monitor_task, pollers, forwarded, feedVars,
                                          loopVars>>

FeedDrain == DrainFeeds /\ UNCHANGED <<tasks, cycles, chatVars, pc, keys, timer_due,
                                       frame, overflow_checks>>

\* the refresh key, handled
Refresh ==
    /\ cycles < MaxCycles
    /\ FetchRss
    /\ UNCHANGED <<rss_q, rss_feeds, stored, last_ok, chatVars, loopVars>>

\* the timer, elapsed and checked
Tick == on_tick /\ UNCHANGED <<chatVars, feedVars, pc, keys, timer_due, frame,
                               overflow_checks>>

Redraw(width) ==
    /\ frame' = Some(RenderFrame(width))
    /\ UNCHANGED <<chatVars, feedVars, offset, pc, keys, timer_due, overflow_checks>>

\* The chat monitor and the aggregator's chat table; chat 3 has no name
InitMonitor == InitChat /\ InitFeeds /\ InitLoop /\ overflow_checks = FALSE
               /\ target_chat_ids \in {{1, 2}, {1}}

NextMonitor ==
    \/ \E d \in NamedDialogs : MonitorDialog(d)
    \/ MonitorError
    \/ ChatDrain

SpecMonitor == InitMonitor /\ [][NextMonitor]_vars

\* Several pollers over the dialogs of two target conversations and of one
\* that is no target
PollerDialogs == {d \in NamedDialogs : /\ d.chat_id \in {1, 2, 3}
                                       /\ d.last_message = None
                                          \/ d.last_message[1].text = <<104, 105>>}

NextPollers ==
    \/ \E p \in Pollers, d \in PollerDialogs : PollerNext(p, d)
    \/ \E p \in Pollers : PollerDedup(p)
    \/ \E p \in Pollers : PollerSend(p)

InitPollers == InitChat /\ InitFeeds /\ InitLoop /\ overflow_checks = FALSE
               /\ target_chat_ids = {1, 2}

SpecPollers == InitPollers /\ [][NextPollers]_vars

\* Two target conversations: the first is alice's, with any text; the second
\* goes by alice's name or by bob's, with one text
CollidingDialogs ==
    {d \in Dialogs : /\ d.chat_id \in {1, 2}
                     /\ d.last_message # None
                     /\ d.name # None
                     /\ d.chat_id = 1 => d.name = Some(alice)
                     /\ d.chat_id = 2 => d.last_message[1].text = <<104, 105>>}

InitTable == InitChat /\ InitFeeds /\ InitLoop /\ overflow_checks = FALSE
             /\ target_chat_ids = {1, 2}

NextTable ==
    \/ \E d \in CollidingDialogs : MonitorDialog(d)
    \/ ChatDrain
    \/ Redraw(SysWidth)

SpecTable == InitTable /\ [][NextTable]_vars

\* One fetch cycle under every combination of outcomes
AllOutcomes == [Urls -> FetchOutcomes]

InitBatch == InitChat /\ InitFeeds /\ InitLoop /\ overflow_checks = FALSE
             /\ target_chat_ids = {1, 2}

NextBatch == \E o \in AllOutcomes : FetchComplete(1, o)

SpecBatch == InitBatch /\ [][NextBatch]_vars

\* Overlapping fetch cycles and the drain of their batches
FeedOutcomes ==
    {[u \in Urls |-> IF u \in bad THEN r ELSE "ok"] :
        bad \in {{}, {1}, {4}, {1, 4}}, r \in {"err", "empty"}}

NextFeeds ==
    \/ \E c \in 1..MaxCycles, o \in FeedOutcomes : FetchComplete(c, o)
    \/ Refresh
    \/ FeedDrain
    \/ Tick

InitCycles == InitChat /\ InitFeeds /\ InitLoop /\ target_chat_ids = {1, 2}

SpecFeeds == InitCycles /\ [][NextFeeds]_vars

\* The layout of one feed, shown in the first category (no tag) and the last
\* (the longest tag), at every offset and width
MaxFeedLen == 3
MaxWidth == 22

TestDates == {<<>>, <<49, 53, 32, 74, 97, 110>>, <<49, 53, 32, 100, 233, 99>>,
              <<50, 48, 50, 52, 45, 48, 49, 45, 49, 53, 84, 48>>}
TestTitles == {2, 5, 12}
TestDesc(len) ==
    IF len = 2 THEN <<>>
    ELSE IF len = 5 THEN <<100, LF, 101>>
    ELSE Repeat(100, 2 * MaxWidth + 1)
\* item j of a test feed: its title starts with the letter of j
TestItem(j, len, date) ==
    Item(<<64 + j>> \o Repeat(120, len - 1), date, TestDesc(len))
TestFeeds == {[j \in 1..n |-> TestItem(j, len, date)] :
                 n \in 1..MaxFeedLen, len \in TestTitles, date \in TestDates}

InitLayout ==
    /\ InitChat /\ InitLoop /\ target_chat_ids = {1, 2}
    /\ tasks = {} /\ cycles = 1 /\ rss_q = <<>>
    /\ stored = None /\ last_ok = [u \in Urls |-> <<>>]
    /\ \E feed \in TestFeeds :
          rss_feeds = [u \in Urls |-> IF u \in {1, NumUrls} THEN feed ELSE <<>>]

NextLayout ==
    \/ Tick
    \/ \E w \in 0..MaxWidth : Redraw(w)

SpecLayout == InitLayout /\ [][NextLayout]_vars

\* The loop over a feed of MaxFeedLen items in the first and the last
\* category, with the keyboard, the timer and the refresh it can start
OrderFeed == [j \in 1..MaxFeedLen |-> TestItem(j, 5, <<49, 53, 32, 74, 97, 110>>)]

InitOrder ==
    /\ InitChat /\ InitLoop /\ target_chat_ids = {1, 2}
    /\ tasks = {} /\ cycles = 1 /\ rss_q = <<>>
    /\ stored = None /\ last_ok = [u \in Urls |-> <<>>]
    /\ rss_feeds = [u \in Urls |-> IF u \in {1, NumUrls} THEN OrderFeed ELSE <<>>]

NextOrder ==
    \/ \E c \in 1..MaxCycles, o \in SysOutcomes : FetchComplete(c, o)
    \/ LoopDrainFeeds
    \/ LoopDrainTelegram
    \/ Draw(SysWidth)
    \/ PollEvent
    \/ TimerCheck
    \/ Exit
    \/ TimePasses
    \/ \E k \in KeyEvents : KeyPress(k)

SpecOrder == InitOrder /\ [][NextOrder]_vars

SpecLive == SpecOrder /\ LoopFairness

\* The loop beside a monitor whose listing can fail: one target conversation
\* whose latest message id grows, and a user who can quit
ChatDialogs ==
    {[chat_id |-> 1, name |-> Some(alice),
      last_message |-> Some([id |-> m, text |-> <<104, 105>>])] : m \in MsgIds}

NextChat ==
    \/ \E d \in ChatDialogs : MonitorDialog(d)
    \/ MonitorError
    \/ LoopDrainFeeds
    \/ LoopDrainTelegram
    \/ Draw(SysWidth)
    \/ PollEvent
    \/ TimerCheck
    \/ Exit
    \/ KeyPress([code |-> "q", kind |-> "Press"])

SpecChat == Init /\ [][NextChat]_vars


(***************************************************************************)
(* The claims.                                                             *)
(***************************************************************************)
Last(q) == q[Len(q)]
StrictlyIncreasing(q) == \A i, j \in DOMAIN q : i < j => q[i] < q[j]

\* A step in which the monitor handled a dialog (and the state shows it)
Handled ==
    dialog' # dialog \/ last_seen' # last_seen \/ Len(tg_q') > Len(tg_q)

\* C1: when the monitor handles a dialog of conversation c whose latest message
\* has id m, the message is sent to the sink iff c is a target conversation and
\* c has no cursor or m is above it; if it is sent the cursor of c becomes m,
\* and if it is not, the cursor table stays as it was.
C1_ForwardedIffNewer ==
    [][(Handled /\ dialog'[1].msg_id # None) =>
         LET c == dialog'[1].chat_id
             m == dialog'[1].msg_id[1]
             sent == Len(tg_q') = Len(tg_q) + 1
         IN /\ sent <=> /\ c \in target_chat_ids
                        /\ c \notin DOMAIN last_seen \/ m > last_seen[c]
            /\ sent => c \in DOMAIN last_seen' /\ last_seen'[c] = m
            /\ ~sent => last_seen' = last_seen /\ tg_q' = tg_q]_vars

\* a message above an existing cursor was just forwarded and sits in the sink
C1_Witness ==
    /\ dialog # None /\ dialog[1].msg_id # None
    /\ LET c == dialog[1].chat_id IN
       /\ c \in DOMAIN last_seen
       /\ last_seen[c] = dialog[1].msg_id[1]
       /\ Len(forwarded[c]) >= 2
       /\ tg_q # <<>>

\* C2: over any sequence of polls, the reported ids going down or repeating
\* included, no cursor ever decreases and the ids forwarded for a conversation
\* are strictly increasing, so none is forwarded twice.
C2_CursorMonotonic ==
    [][\A c \in ChatIds :
         /\ c \in DOMAIN last_seen =>
              c \in DOMAIN last_seen' /\ last_seen'[c] >= last_seen[c]
         /\ StrictlyIncreasing(forwarded'[c])]_vars

\* an id below the cursor was reported after two messages were forwarded
C2_Witness ==
    /\ dialog # None /\ dialog[1].msg_id # None
    /\ LET c == dialog[1].chat_id IN
       /\ c \in DOMAIN last_seen
       /\ dialog[1].msg_id[1] < last_seen[c]
       /\ Len(forwarded[c]) >= 2

\* C3: every batch a fetch cycle delivers has one entry per URL, entry u being
\* the result for URL u: the items fetched, or nothing where the fetch failed.
C3_BatchPerUrl ==
    \A i \in DOMAIN rss_q :
        /\ Len(rss_q[i].feeds) = NumUrls
        /\ \A u \in Urls :
              rss_q[i].feeds[u] = IF rss_q[i].outcome[u] = "ok"
                                  THEN Content(u, rss_q[i].cycle) ELSE <<>>

\* a batch in which URLs 2 and 5 failed and their neighbours did not
C3_Witness ==
    \E i \in DOMAIN rss_q :
        /\ rss_q[i].outcome[2] = "err" /\ rss_q[i].outcome[5] = "err"
        /\ \A u \in Urls \ {2, 5} : rss_q[i].outcome[u] = "ok"
        /\ rss_q[i].feeds[6] # <<>>

\* C4: once batches are drained, a category whose fetch failed in the batch
\* stored renders as the placeholder line, at every width, without a panic,
\* and every other category holds the items of its own last successful fetch.
C4_FailedCategoryIsolated ==
    stored # None =>
        \A u \in Urls :
            IF stored[1].outcome[u] = "err"
            THEN \A w \in 0..MaxWidth :
                    render_rss_block(w, rss_feeds, offset, u - 1, COUNT,
                                     TagInfo(u - 1), overflow_checks)
                    = [panic |-> FALSE, items |-> <<<<FetchingData>>>>]
            ELSE rss_feeds[u] = last_ok[u]

\* category 0 failed in the second batch after it had succeeded in the first
C4_Witness ==
    /\ stored # None
    /\ stored[1].outcome[1] = "err" /\ last_ok[1] # <<>>
    /\ \A u \in Urls \ {1} : stored[1].outcome[u] = "ok" /\ rss_feeds[u] # <<>>

\* C5: the chat table has one entry per sender among the deliveries drained,
\* holding the text of the last of them for that sender.
C5_LastWriteWins ==
    LET senders == {drained[i][1] : i \in DOMAIN drained}
        last(s) == CHOOSE i \in DOMAIN drained :
                       /\ drained[i][1] = s
                       /\ \A j \in DOMAIN drained : drained[j][1] = s => j <= i
    IN /\ DOMAIN telegram_messages = senders
       /\ \A s \in senders : telegram_messages[s] = drained[last(s)][2]

\* two conversations delivered under one name, with different texts
C5_Witness ==
    /\ forwarded[1] # <<>> /\ forwarded[2] # <<>>
    /\ tg_q = <<>>
    /\ DOMAIN telegram_messages = {alice}
    /\ drained[1][2] # Last(drained)[2]

Descending(rows) == \A i, j \in DOMAIN rows : i < j => StrLess(rows[j][1], rows[i][1])
Ascending(rows) == \A i, j \in DOMAIN rows : i < j => StrLess(rows[i][1], rows[j][1])

\* C6, as amended: a drawn chat column lists the entries of the chat table (the
\* first 20 of them) in descending order of the sender key, whatever the order
\* of arrival.
C6_DescendingOrder ==
    [][frame' # frame =>
         LET rows == frame'[1].telegram IN
         /\ Len(rows) = Min(Cardinality(DOMAIN telegram_messages), TG_ROWS)
         /\ \A i \in DOMAIN rows :
               /\ rows[i][1] \in DOMAIN telegram_messages
               /\ rows[i][2] = telegram_messages[rows[i][1]]
         /\ Descending(rows)]_vars

\* deliveries for alice, bob, alice, drawn as bob, then alice
C6_Witness ==
    /\ Len(drained) = 3
    /\ drained[1][1] = alice /\ drained[2][1] = bob /\ drained[3][1] = alice
    /\ frame # None
    /\ Len(frame[1].telegram) = 2
    /\ frame[1].telegram[1][1] = bob /\ frame[1].telegram[2][1] = alice

\* C6 as claimed: the chat column lists the entries in ascending key order
C6_AscendingOrder == frame # None => Ascending(frame[1].telegram)


\* what one visible item renders to
RenderedItem(item, inner_width, tag_info) ==
    <<HeaderLine(item, inner_width, tag_info)>> \o DescLines(item.desc, inner_width)

\* C7 as claimed: a drawn block of a feed of N >= K items shows, in slot i, the
\* item at index (offset + i) mod N, and each advance of the offset moves the
\* window on by one item in the cycle of N.
C7_RotatingWindow ==
    [][/\ frame' # frame =>
            \A u \in {1, NumUrls} :
               LET feed == rss_feeds[u]
                   inner == InnerWidth(frame'[1].width)
                   block == frame'[1].blocks[u - 1]
               IN (Len(feed) >= COUNT /\ inner > 0) =>
                     /\ ~block.panic
                     /\ \A i \in 0..(COUNT - 1) :
                           block.items[2 * i + 1] =
                              RenderedItem(feed[((offset + i) % Len(feed)) + 1],
                                           inner, TagInfo(u - 1))
       /\ offset' # offset =>
            \A u \in {1, NumUrls} :
               LET n == Len(rss_feeds[u])
               IN n >= COUNT => offset' % n = ((offset % n) + 1) % n]_vars

\* C8 as claimed: whenever the title is longer than the computed maximum, the
\* header line drawn is exactly as wide as the inside of the block.
C8_HeaderFillsWidth ==
    frame # None =>
       \A u \in {1, NumUrls} :
          LET inner == InnerWidth(frame[1].width)
              block == frame[1].blocks[u - 1]
              item == rss_feeds[u][1]
              max_len == SaturatingSub(inner, ByteLen(DateStr(item.date))
                                              + Len(TagStr(TagInfo(u - 1))) + 4)
          IN (~block.panic /\ Len(item.title) > max_len) =>
                \A i \in 0..(COUNT - 1) : Len(block.items[2 * i + 1][1]) = inner

QuitKey == [code |-> "q", kind |-> "Press"]
Dashboard == <<rss_feeds, telegram_messages, offset, frame>>

\* C9: the step that handles a quit key press leaves the loop at once, whatever
\* tasks are in flight and whatever the channels hold, and once the loop is
\* left nothing changes the dashboard state.
C9_QuitEndsLoop ==
    /\ [](pc = "poll" => ENABLED PollEvent)
    /\ [][/\ (pc = "poll" /\ keys # <<>> /\ Head(keys) = QuitKey /\ keys' = Tail(keys))
             => pc' = "cleanup"
          /\ pc \in {"cleanup", "exited"}
             => Dashboard' = Dashboard /\ pc' \in {"cleanup", "exited"}]_vars

\* the loop was left with a fetch in flight and a chat delivery undrained
C9_Witness ==
    /\ pc \in {"cleanup", "exited"}
    /\ tasks # {}
    /\ tg_q # <<>>

\* C10 as claimed: each time the timer check finds the interval elapsed, a new
\* fetch cycle is started.
C10_TimerStartsFetch ==
    [][(pc = "tick" /\ timer_due /\ pc' # pc) => cycles' = cycles + 1]_vars

\* C11: the drain step of an iteration that finds one or more batches pending
\* leaves the stored feed set equal to the last of them, whatever was stored
\* before, and the offset at 0; one that finds none leaves both as they were.
C11_DrainReplacesWholesale ==
    [][(pc = "drain_feeds" /\ pc' = "drain_tg") =>
         IF rss_q = <<>>
         THEN rss_feeds' = rss_feeds /\ offset' = offset
         ELSE rss_feeds' = Last(rss_q).feeds /\ offset' = 0 /\ rss_q' = <<>>]_vars

\* the drain has just replaced the feed set the last frame was drawn from by
\* the batch of the second cycle, in which category 0 failed
C11_Witness ==
    /\ pc = "drain_tg"
    /\ stored # None /\ stored[1].cycle = 2 /\ stored[1].outcome[1] = "err"
    /\ frame # None
    /\ frame[1].blocks[0].items # <<<<FetchingData>>>>
    /\ rss_feeds[1] = <<>> /\ offset = 0

\* C12: a timer check that finds the interval elapsed advances the offset by
\* one, from the maximum to 0, and resets the timer, and leaves the feeds and
\* the chat table alone; one that does not leaves the offset and the timer.
C12_TickAdvancesOffset ==
    [][(pc = "tick" /\ pc' # pc) =>
         /\ pc' = "drain_feeds"
         /\ IF timer_due
            THEN /\ offset' = (IF offset = UsizeMax THEN 0 ELSE offset + 1)
                 /\ ~timer_due'
                 /\ rss_feeds' = rss_feeds
                 /\ telegram_messages' = telegram_messages
            ELSE offset' = offset /\ timer_due' = timer_due]_vars

\* the timer check has just advanced the offset to its maximum, over feeds
\* and a chat table that hold data
C12_Witness ==
    /\ pc = "drain_feeds" /\ ~timer_due
    /\ offset = UsizeMax
    /\ stored # None /\ telegram_messages # EmptyMap

\* the steps of the loop in the order they follow one another
LoopOrder ==
    {<<"drain_feeds", "drain_tg">>, <<"drain_tg", "draw">>, <<"draw", "poll">>,
     <<"draw", "panicked">>, <<"poll", "tick">>, <<"poll", "cleanup">>,
     <<"tick", "drain_feeds">>, <<"cleanup", "exited">>}

\* C13, as amended: an iteration drains the feed batches, drains the chat
\* messages, renders the frame, handles at most one keyboard event and checks
\* the timer, in this order; the frame is rendered from the state the drains
\* left, and neither the keyboard step nor the timer check changes it, so an
\* offset advance shows in the frame of the next iteration.
C13_RenderBeforeInput ==
    [][/\ pc' # pc => <<pc, pc'>> \in LoopOrder
       /\ frame' # frame => pc = "draw" /\ frame' = Some(RenderFrame(SysWidth))
       /\ (pc = "draw" /\ pc' # pc) => frame' = Some(RenderFrame(SysWidth))
       /\ pc \in {"poll", "tick"} => frame' = frame
       /\ (keys # <<>> /\ keys' = Tail(keys)) => pc = "poll"
       /\ (rss_feeds' # rss_feeds \/ Len(rss_q') < Len(rss_q)) => pc = "drain_feeds"
       /\ (offset' # offset /\ rss_q = <<>>) => pc = "tick"]_vars

\* the timer check has advanced the offset and the frame still shows the
\* items drawn before it
C13_Witness ==
    /\ pc = "drain_feeds" /\ offset = 1
    /\ rss_feeds[1] = OrderFeed
    /\ frame # None /\ ~frame[1].panic
    /\ frame[1].blocks[0].items[1] =
          RenderedItem(OrderFeed[1], InnerWidth(SysWidth), None)

\* C13 as claimed: the frame is rendered after the timer check, so that at the
\* end of an iteration it shows the offset the timer check left.
C13_FrameReflectsTick ==
    [][(pc = "tick" /\ pc' = "drain_feeds") =>
         frame' = Some([width |-> SysWidth,
                        panic |-> frame'[1].panic,
                        blocks |-> [k \in 0..(NumUrls - 1) |->
                                      render_rss_block(SysWidth, rss_feeds', offset', k,
                                                       COUNT, TagInfo(k), overflow_checks)],
                        telegram |-> TgItems(telegram_messages')])]_vars

LoopLeft == pc \in {"cleanup", "exited"}

\* C14 as claimed: every iteration, whatever the queues hold and whatever
\* fetches are in flight, reaches the keyboard poll and the timer check, so
\* every pending key is handled and every elapse of the timer advances the
\* offset, unless the user has quit.
C14_LoopNeverWaits ==
    /\ [](pc \in {"drain_feeds", "drain_tg", "draw"} => <>(pc = "poll"))
    /\ [](pc = "poll" => <>(pc = "tick" \/ LoopLeft))
    /\ [](keys # <<>> => <>(keys = <<>>))
    /\ [](timer_due => <>(~timer_due \/ LoopLeft))

\* the latest message of dialog d is above the cursor of a target conversation
NewMessage(d) ==
    /\ d.chat_id \in target_chat_ids
    /\ d.last_message # None
    /\ ~ShouldSkip(last_seen, d.chat_id, d.last_message[1].id)

\* C15 as claimed: whatever listing failures there were, while the program
\* runs the monitor polls on, and a new message of a target conversation is
\* still handled and forwarded.
C15_MonitorSurvivesFailure ==
    [](\A d \in ChatDialogs :
          (NewMessage(d) /\ ~LoopLeft /\ pc # "panicked") => ENABLED MonitorDialog(d))

\* what the loop of main() reads and what the user sees
Observed == <<tg_q, rss_q, keys, timer_due, pc, frame, rss_feeds,
              telegram_messages, offset>>

\* C16 as claimed: the step in which a transport error ends the monitor shows
\* in the state the rest of the program reads or displays.
C16_ErrorSurfaced ==
    [][(monitor_task = "running" /\ monitor_task' = "ended")
          => Observed' # Observed]_vars

NoDuplicates(q) == \A i, j \in DOMAIN q : i # j => q[i] # q[j]

\* C17: with several pollers over one cursor table, interleaved step by step,
\* no message id is forwarded twice for a conversation and no cursor ever
\* decreases.
C17_AtomicDedup ==
    [][\A c \in ChatIds :
         /\ NoDuplicates(forwarded'[c])
         /\ c \in DOMAIN last_seen =>
              c \in DOMAIN last_seen' /\ last_seen'[c] >= last_seen[c]]_vars

\* two pollers took two messages of one conversation through the locked
\* block and sent them in the other order, while a poller holds an id that
\* the cursor has passed
C17_Witness ==
    \E c \in ChatIds, p \in Pollers :
        /\ Len(forwarded[c]) = 2 /\ forwarded[c][1] > forwarded[c][2]
        /\ pollers[p].at = "lock"
        /\ pollers[p].d[1].chat_id = c
        /\ pollers[p].d[1].last_message[1].id <= last_seen[c]

\* C18 as claimed: once every cycle started has delivered and every batch is
\* drained, the stored feed set is the batch of the cycle started last.
C18_LatestCycleWins ==
    (tasks = {} /\ rss_q = <<>> /\ stored # None) => stored[1].cycle = cycles

\* C19 as claimed: at every draw of a non-empty feed of N items, for every
\* slot i below the window size, offset + i does not exceed the maximum of the
\* counter and the index computed lies in 0..N-1.
C19_IndexInRange ==
    [][frame' # frame =>
         \A u \in {1, NumUrls}, i \in 0..(COUNT - 1) :
            LET n == Len(rss_feeds[u])
                item_idx == ItemIdx(offset, i, n, overflow_checks)
            IN n > 0 => /\ offset + i <= UsizeMax
                        /\ item_idx # None
                        /\ item_idx[1] \in 0..(n - 1)]_vars

\* C20 as claimed: a draw of a non-empty feed into a block of any width, 2 or
\* less included, at an offset whose indices are computed, does not fail and
\* gives each item at most 2 description lines of at most inner-width
\* characters.
C20_RenderNeverFails ==
    [][frame' # frame =>
         \A u \in {1, NumUrls} :
            LET inner == InnerWidth(frame'[1].width)
                block == frame'[1].blocks[u - 1]
            IN (rss_feeds[u] # <<>> /\ offset + COUNT - 1 <= UsizeMax) =>
                  /\ ~block.panic
                  /\ \A i \in 0..(COUNT - 1) :
                        LET lines == block.items[2 * i + 1] IN
                        /\ Len(lines) - 1 <= DESC_CHUNKS
                        /\ \A l \in 2..Len(lines) : Len(lines[l]) <= inner]_vars

====
